---- MODULE Spec2Model ----
(***************************************************************************)
(* Model of mmf/modules/detr/models/transformer.py: the MTTransformer      *)
(* orchestrator (decoder registry, task-embedding injection, modality      *)
(* fusion) and the TransformerEncoder / TransformerDecoder stacks.         *)
(*                                                                         *)
(* A tensor is a record [none, ax, shape, seq]: ax names the axes in       *)
(* order, shape gives their sizes, and seq holds the content along the     *)
(* sequence axis "S" (one cell per sequence position; a cell of a mask is  *)
(* the tuple of its batch rows, a cell of a stacked decoder output is the  *)
(* tuple of its layers).  Before flatten, seq of an image tensor is the    *)
(* sequence of its H rows, each a sequence of W cells.  Cells are symbolic:*)
(* they record where the value at a position comes from and which          *)
(* operations were applied to it, not the numbers (the attention,          *)
(* normalization and linear kernels are library primitives).               *)
(***************************************************************************)
EXTENDS Integers, Sequences, FiniteSets, TLC

VARIABLES self, pc, call, ret, again

vars == <<self, pc, call, ret, again>>

\* ------------------------------------------------------------------ bounds
MaxSide == 2
MaxText == 2
MaxQueries == 2
MaxLayers == 2

MAX_TASK_NUM == 256

Dims == {8, 16}
DecDims == {8}
BatchSizes == {2}
TaskIdxs == {3}

\* ------------------------------------------------------------------ cells
Tok(k, i) == [k |-> k, i |-> i]
NoTok == Tok("none", 0)
ZeroTok == Tok("zero", 0)

\* a content cell of the encoder / memory pipeline
Cell(t) ==
  [of |-> t, fold |-> NoTok, enc |-> 0, ctx |-> 0, encpos |-> NoTok,
   res |-> NoTok, proj |-> "none"]

\* a positional-embedding cell
PosCell(t) == [of |-> t, proj |-> "none"]

\* ---------------------------------------------------------------- tensors
NoneT == [none |-> TRUE, ax |-> <<>>, shape |-> <<>>, seq |-> <<>>]

Tensor(ax, shape, seq) == [none |-> FALSE, ax |-> ax, shape |-> shape, seq |-> seq]

RECURSIVE Concat(_)
Concat(rows) == IF rows = <<>> THEN <<>> ELSE Head(rows) \o Concat(Tail(rows))

\* t.flatten(2) of a (B, C, H, W) tensor: H and W merge row-major into one axis
Flatten2(t) ==
  Tensor(<<t.ax[1], t.ax[2], "S">>,
         <<t.shape[1], t.shape[2], t.shape[3] * t.shape[4]>>,
         Concat(t.seq))

\* t.flatten(1) of a (B, H, W) mask
Flatten1(t) ==
  Tensor(<<t.ax[1], "S">>, <<t.shape[1], t.shape[2] * t.shape[3]>>, Concat(t.seq))

\* t.permute(p): axis k of the result is axis p[k] of t (p is 1-based here)
Permute(t, p) ==
  Tensor([k \in 1..Len(p) |-> t.ax[p[k]]], [k \in 1..Len(p) |-> t.shape[p[k]]], t.seq)

\* t.transpose(1, 2): swaps the second and third axis
Transpose12(t) ==
  Permute(t, [k \in 1..Len(t.shape) |-> IF k = 2 THEN 3 ELSE IF k = 3 THEN 2 ELSE k])

\* t.unsqueeze(1).repeat(1, bs, 1) of an (S, C) tensor
UnsqueezeRepeat(t, bs) ==
  Tensor(<<t.ax[1], "B", t.ax[2]>>, <<t.shape[1], bs, t.shape[2]>>, t.seq)

\* torch.zeros_like(t)
ZerosLike(t) == Tensor(t.ax, t.shape, [p \in 1..Len(t.seq) |-> ZeroTok])

\* t[b:] along the axis named "S"
SliceSeqFrom(t, b) ==
  Tensor(t.ax,
         [k \in 1..Len(t.shape) |-> IF t.ax[k] = "S" THEN t.shape[k] - b ELSE t.shape[k]],
         SubSeq(t.seq, b + 1, Len(t.seq)))

\* the shape of t without its axis "S"
OtherDims(t) ==
  [k \in {j \in 1..Len(t.shape) : t.ax[j] # "S"} |-> <<t.ax[k], t.shape[k]>>]

\* torch.cat(list) along the sequence axis (dim 0 of (S, B, C) tensors, the last
\* dim of (B, S) masks); the other sizes must agree
CatSeq(list) ==
  IF list = <<>> THEN [err |-> "RuntimeError", t |-> NoneT]
  ELSE IF \E k \in 1..Len(list) : list[k].none THEN [err |-> "TypeError", t |-> NoneT]
  ELSE IF \E k \in 1..Len(list) : OtherDims(list[k]) # OtherDims(list[1])
       THEN [err |-> "RuntimeError", t |-> NoneT]
  ELSE [err |-> "",
        t |-> Tensor(list[1].ax,
                     [k \in 1..Len(list[1].shape) |->
                        IF list[1].ax[k] = "S"
                        THEN Len(Concat([j \in 1..Len(list) |-> list[j].seq]))
                        ELSE list[1].shape[k]],
                     Concat([j \in 1..Len(list) |-> list[j].seq]))]

\* ----------------------------------------------------- TransformerEncoder
NumEncoderLayers == 6

\* what nn.MultiheadAttention requires of key, its positional embedding and
\* its key_padding_mask: (S, B, C), the same shape, and (B, S)
AttentionShapesOk(kv, pos, mask) ==
  /\ ~kv.none
  /\ kv.ax = <<"S", "B", "C">>
  /\ kv.shape[1] = Len(kv.seq)
  /\ pos.none \/ (pos.ax = kv.ax /\ pos.shape = kv.shape)
  /\ mask.none \/ (mask.ax = <<"B", "S">> /\ mask.shape = <<kv.shape[2], kv.shape[1]>>)

TransformerEncoderForward(num_layers, d_model, src, src_key_padding_mask, pos) ==
  IF src.none \/ (num_layers > 0 /\
       (~AttentionShapesOk(src, pos, src_key_padding_mask) \/ src.shape[3] # d_model))
  THEN [err |-> "ShapeError", out |-> NoneT]
  ELSE [err |-> "",
        out |-> Tensor(src.ax, src.shape,
                  [p \in 1..Len(src.seq) |->
                     [src.seq[p] EXCEPT
                        !.enc = @ + num_layers,
                        !.ctx = IF num_layers > 0 THEN Len(src.seq) ELSE @,
                        !.encpos = IF pos.none \/ num_layers = 0 THEN @
                                   ELSE pos.seq[p].of]])]

\* ----------------------------------------------------- TransformerDecoder
TransformerDecoder(id, num_layers, norm, return_intermediate) ==
  [id |-> id, num_layers |-> num_layers, norm |-> norm,
   return_intermediate |-> return_intermediate]

\* a hidden-state cell: the decoder instance and layer that produced it, the
\* content it started from, the query position it carries, the norms applied
HCell(id, t) == [dec |-> id, layer |-> 0, tgt |-> t, qpos |-> NoTok, nrm |-> 0, mem |-> 0]

\* one TransformerDecoderLayer: every slot keeps its position
DecoderLayer(output, memory, query_pos) ==
  [p \in 1..Len(output) |->
     [output[p] EXCEPT !.layer = @ + 1,
                       !.qpos = IF query_pos.none THEN NoTok ELSE query_pos.seq[p],
                       !.mem = Len(memory.seq)]]

\* self.norm(output)
Norm(output) == [p \in 1..Len(output) |-> [output[p] EXCEPT !.nrm = @ + 1]]

\* the loop over self.layers: <<output, intermediate>> after layers l..num_layers
RECURSIVE DecoderLoop(_, _, _, _, _, _)
DecoderLoop(dec, l, output, intermediate, memory, query_pos) ==
  IF l > dec.num_layers THEN <<output, intermediate>>
  ELSE LET out == DecoderLayer(output, memory, query_pos)
           inter == IF dec.return_intermediate
                    THEN Append(intermediate, Norm(out))
                    ELSE intermediate
       IN DecoderLoop(dec, l + 1, out, inter, memory, query_pos)

\* DecoderFinish with the pop left out: the last layer is captured twice
DecoderFinishNoPop(dec, output, intermediate) ==
  IF dec.norm
  THEN [err |-> "", output |-> Norm(output),
        intermediate |-> IF dec.return_intermediate
                         THEN Append(intermediate, Norm(output)) ELSE intermediate]
  ELSE [err |-> "", output |-> output, intermediate |-> intermediate]

\* the tail of forward: final norm, replace the last captured entry, return
DecoderFinish(dec, output, intermediate) ==
  IF dec.norm
  THEN LET normed == Norm(output) IN
       IF dec.return_intermediate
       THEN IF intermediate = <<>>
            THEN [err |-> "IndexError", output |-> normed, intermediate |-> <<>>]
            ELSE [err |-> "", output |-> normed,
                  intermediate |->
                    Append(SubSeq(intermediate, 1, Len(intermediate) - 1), normed)]
       ELSE [err |-> "", output |-> normed, intermediate |-> intermediate]
  ELSE [err |-> "", output |-> output, intermediate |-> intermediate]

\* torch.stack(intermediate): a new leading axis "L"; cell p holds its layers
Stack(intermediate, like) ==
  Tensor(<<"L">> \o like.ax, <<Len(intermediate)>> \o like.shape,
         [p \in 1..Len(like.seq) |-> [l \in 1..Len(intermediate) |-> intermediate[l][p]]])

TransformerDecoderForward(dec, tgt, memory, memory_key_padding_mask, pos, query_pos) ==
  IF \/ tgt.none
     \/ dec.num_layers > 0 /\
          (\/ ~AttentionShapesOk(memory, pos, memory_key_padding_mask)
           \/ ~AttentionShapesOk(tgt, query_pos, NoneT)
           \/ tgt.shape[2] # memory.shape[2]
           \/ tgt.shape[3] # memory.shape[3])
  THEN [err |-> "ShapeError", out |-> NoneT]
  ELSE IF dec.return_intermediate /\ ~dec.norm /\ dec.num_layers > 0
  THEN [err |-> "TypeError", out |-> NoneT]
  ELSE LET loop == DecoderLoop(dec, 1, [p \in 1..Len(tgt.seq) |-> HCell(dec.id, tgt.seq[p])],
                               <<>>, memory, query_pos)
           fin == DecoderFinish(dec, loop[1], loop[2])
       IN IF fin.err # "" THEN [err |-> fin.err, out |-> NoneT]
          ELSE IF dec.return_intermediate
          THEN IF fin.intermediate = <<>>
               THEN [err |-> "RuntimeError", out |-> NoneT]
               ELSE [err |-> "", out |-> Stack(fin.intermediate, tgt)]
          ELSE [err |-> "", out |-> Tensor(tgt.ax, tgt.shape, fin.output)]

\* ------------------------------------------------- MTTransformer.__init__
\* dict[k] = v
Put(d, k, v) == [x \in DOMAIN d \cup {k} |-> IF x = k THEN v ELSE d[x]]

EmptyDict == [x \in {} |-> 0]

\* a fresh decoder: its identity is its position in the list of instances
build_decoder_layer(b, num_decoder_layers, return_intermediate_dec) ==
  TransformerDecoder(Len(b.instances) + 1, num_decoder_layers, TRUE, return_intermediate_dec)

\* the dataset loop with share_decoders ignored: every entry is self.decoder
DatasetLoopAlwaysShared(b, datasets, share_decoders, num_decoder_layers, return_intermediate_dec) ==
  [b EXCEPT !.task_dict = [d \in {datasets[k] : k \in 1..Len(datasets)} |-> b.decoder]]

\* for dataset in num_queries[task]: ...
RECURSIVE DatasetLoop(_, _, _, _, _)
DatasetLoop(b, datasets, share_decoders, num_decoder_layers, return_intermediate_dec) ==
  IF datasets = <<>> THEN b
  ELSE LET dataset == Head(datasets)
           b1 == IF share_decoders
                 THEN [b EXCEPT !.task_dict = Put(@, dataset, b.decoder)]
                 ELSE LET fresh == build_decoder_layer(b, num_decoder_layers,
                                                       return_intermediate_dec)
                      IN [b EXCEPT !.decoder = 0,
                                   !.instances = Append(@, fresh),
                                   !.task_dict = Put(@, dataset, fresh.id)]
       IN DatasetLoop(b1, Tail(datasets), share_decoders, num_decoder_layers,
                      return_intermediate_dec)

\* for task in num_queries: ...
RECURSIVE TaskLoop(_, _, _, _, _)
TaskLoop(b, num_queries, share_decoders, num_decoder_layers, return_intermediate_dec) ==
  IF num_queries = <<>> THEN b
  ELSE LET task == Head(num_queries)
           b1 == DatasetLoop([b EXCEPT !.task_dict = EmptyDict], task.datasets,
                             share_decoders, num_decoder_layers, return_intermediate_dec)
       IN TaskLoop([b1 EXCEPT !.decoders = Put(@, task.task, b1.task_dict)],
                   Tail(num_queries), share_decoders, num_decoder_layers,
                   return_intermediate_dec)

\* the module after construction; decoder instance 1 is the parent's self.decoder
MTTransformerInit(args, d_model_enc, d_model_dec, num_decoder_layers, return_intermediate_dec, pass_pos_and_query, share_decoders) ==
  LET base == TransformerDecoder(1, num_decoder_layers, TRUE, return_intermediate_dec)
      b == TaskLoop([decoder |-> 1, instances |-> <<base>>, task_dict |-> EmptyDict,
                     decoders |-> EmptyDict],
                    args.num_queries, share_decoders, num_decoder_layers,
                    return_intermediate_dec)
  IN [args |-> args,
      pass_pos_and_query |-> pass_pos_and_query,
      share_decoders |-> share_decoders,
      d_model_enc |-> d_model_enc,
      d_model_dec |-> d_model_dec,
      enc2dec_proj |-> IF d_model_dec # d_model_enc THEN "linear" ELSE "identity",
      pos_embed_proj |-> IF d_model_dec # d_model_enc THEN "linear" ELSE "identity",
      decoder |-> b.decoder,
      instances |-> b.instances,
      decoders |-> b.decoders,
      task_embeddings_enc |-> IF args.use_task_embedding_in_encoder THEN MAX_TASK_NUM ELSE 0,
      task_embeddings_dec |-> IF args.use_task_embedding_in_decoder THEN MAX_TASK_NUM ELSE 0,
      mem_out_begin_idx |-> IF args.use_task_embedding_in_encoder THEN 1 ELSE 0,
      hs_out_begin_idx |-> IF args.use_task_embedding_in_decoder THEN 1 ELSE 0]

\* -------------------------------------------------- MTTransformer.forward
\* the locals of one forward call, and what it has done so far
Start(in) ==
  [err |-> "", query_embed |-> in.query_embed, tgt |-> NoneT,
   memories |-> <<>>, pos_embeds |-> <<>>, masks |-> <<>>,
   encCalled |-> FALSE, encSrc |-> NoneT, encMask |-> NoneT, encPos |-> NoneT,
   lookedUp |-> FALSE, decoder |-> 0,
   fusedMem |-> NoneT, fusedMask |-> NoneT, fusedPos |-> NoneT,
   decCalled |-> FALSE, decOut |-> NoneT,
   returned |-> FALSE, hs |-> NoneT, memory |-> NoneT]

Fail(st, e) == [st EXCEPT !.err = e]

\* the row weight[task_idx] of an nn.Embedding(MAX_TASK_NUM, d), broadcast to
\* (1, bs, d); table is the number of rows (0: the table was never created)
TaskEmbed(table, kind, task_idx, bs, d, cell) ==
  IF table = 0 THEN [err |-> "AttributeError", t |-> NoneT]
  ELSE IF task_idx >= table THEN [err |-> "IndexError", t |-> NoneT]
  ELSE [err |-> "",
        t |-> Tensor(<<"S", "B", "C">>, <<1, bs, d>>,
                     <<IF cell THEN Cell(Tok(kind, task_idx)) ELSE Tok(kind, task_idx)>>)]

\* the query prefix with the task embedding concatenated after the queries
PrefixQueryEmbedAtEnd(m, query_embed, task_idx) ==
  IF ~m.args.use_task_embedding_in_decoder THEN [err |-> "", t |-> query_embed]
  ELSE CatSeq(<<query_embed,
                TaskEmbed(m.task_embeddings_dec, "task_dec", task_idx, query_embed.shape[2],
                          m.d_model_dec, FALSE).t>>)

_prefix_task_embedding_to_query_embed(m, query_embed, task_idx) ==
  IF ~m.args.use_task_embedding_in_decoder THEN [err |-> "", t |-> query_embed]
  ELSE LET bs == query_embed.shape[2]
           task_embed == TaskEmbed(m.task_embeddings_dec, "task_dec", task_idx, bs,
                                   m.d_model_dec, FALSE)
       IN IF task_embed.err # "" THEN task_embed
          ELSE CatSeq(<<task_embed.t, query_embed>>)

\* the encoder prefix with the task embedding, its mask entry and its zero
\* position concatenated after the image sequence instead of before it
PrefixEncoderInputsAtEnd(m, img_src, img_mask, img_pos, task_idx) ==
  IF ~m.args.use_task_embedding_in_encoder \/ img_pos.none
  THEN [err |-> IF m.args.use_task_embedding_in_encoder THEN "TypeError" ELSE "",
        img_src |-> img_src, img_mask |-> img_mask, img_pos |-> img_pos]
  ELSE [err |-> "",
        img_src |-> CatSeq(<<img_src, TaskEmbed(m.task_embeddings_enc, "task_enc", task_idx,
                                                img_src.shape[2], m.d_model_enc, TRUE).t>>).t,
        img_mask |-> CatSeq(<<img_mask,
                              Tensor(img_mask.ax, <<img_mask.shape[1], 1>>,
                                     <<[b \in 1..img_mask.shape[1] |-> FALSE]>>)>>).t,
        img_pos |-> CatSeq(<<img_pos,
                             Tensor(img_pos.ax, <<1, img_pos.shape[2], img_pos.shape[3]>>,
                                    <<PosCell(ZeroTok)>>)>>).t]

_prefix_task_embedding_to_encoder_inputs(m, img_src, img_mask, img_pos, task_idx) ==
  IF ~m.args.use_task_embedding_in_encoder
  THEN [err |-> "", img_src |-> img_src, img_mask |-> img_mask, img_pos |-> img_pos]
  ELSE LET bs == img_src.shape[2]
           none == [err |-> "", img_src |-> NoneT, img_mask |-> NoneT, img_pos |-> NoneT]
           task_embed == TaskEmbed(m.task_embeddings_enc, "task_enc", task_idx, bs,
                                   m.d_model_enc, TRUE)
           src == CatSeq(<<task_embed.t, img_src>>)
           img_mask_pad == Tensor(img_mask.ax, <<img_mask.shape[1], 1>>,
                                  <<[b \in 1..img_mask.shape[1] |-> FALSE]>>)
           mask == CatSeq(<<img_mask_pad, img_mask>>)
           img_pos_pad == Tensor(img_pos.ax, <<1, img_pos.shape[2], img_pos.shape[3]>>,
                                 <<PosCell(ZeroTok)>>)
           pos == CatSeq(<<img_pos_pad, img_pos>>)
       IN IF task_embed.err # "" THEN [none EXCEPT !.err = task_embed.err]
          ELSE IF src.err # "" THEN [none EXCEPT !.err = src.err]
          ELSE IF mask.err # "" THEN [none EXCEPT !.err = mask.err]
          ELSE IF img_pos.none THEN [none EXCEPT !.err = "TypeError"]
          ELSE IF pos.err # "" THEN [none EXCEPT !.err = pos.err]
          ELSE [err |-> "", img_src |-> src.t, img_mask |-> mask.t, img_pos |-> pos.t]

\* src + 0.1 * pos, cell by cell
FoldPos(src, pos) ==
  Tensor(src.ax, src.shape, [p \in 1..Len(src.seq) |-> [src.seq[p] EXCEPT !.fold = pos.seq[p].of]])

\* img_src + memory, cell by cell
Residual(img_src, memory) ==
  Tensor(memory.ax, memory.shape,
         [p \in 1..Len(memory.seq) |-> [memory.seq[p] EXCEPT !.res = img_src.seq[p].of]])

\* self.enc2dec_proj / self.pos_embed_proj: nn.Identity() or nn.Linear(d_enc, d_dec)
Proj(kind, d_in, d_out, t) ==
  IF kind = "identity" THEN [err |-> "", t |-> t]
  ELSE IF t.none THEN [err |-> "TypeError", t |-> NoneT]
  ELSE IF t.shape[Len(t.shape)] # d_in THEN [err |-> "RuntimeError", t |-> NoneT]
  ELSE [err |-> "",
        t |-> Tensor(t.ax, [k \in 1..Len(t.shape) |-> IF k = Len(t.shape) THEN d_out ELSE t.shape[k]],
                     [p \in 1..Len(t.seq) |-> [t.seq[p] EXCEPT !.proj = "linear"]])]

\* lines 227-240: the decoder queries of an image-only call
ImageQueries(m, in, st, bs, img_src, img_pos) ==
  LET query_embed == _prefix_task_embedding_to_query_embed(
                       m, UnsqueezeRepeat(st.query_embed, bs), in.task_idx)
      keep == [st |-> st, img_src |-> img_src, img_pos |-> img_pos]
  IN IF ~in.text_src.none THEN keep
     ELSE IF query_embed.err # "" THEN [keep EXCEPT !.st = Fail(st, query_embed.err)]
     ELSE IF m.pass_pos_and_query
     THEN [keep EXCEPT !.st = [st EXCEPT !.query_embed = query_embed.t,
                                         !.tgt = ZerosLike(query_embed.t)]]
     ELSE [st |-> [st EXCEPT !.query_embed = NoneT, !.tgt = query_embed.t],
           img_src |-> FoldPos(img_src, img_pos),
           img_pos |-> NoneT]

\* lines 241-259: prefix, encoder, strip, residual, projections, append
ImageEncode(m, in, st, src, mask, pos) ==
  LET pre == _prefix_task_embedding_to_encoder_inputs(m, src, mask, pos, in.task_idx)
      enc == TransformerEncoderForward(NumEncoderLayers, m.d_model_enc,
                                       pre.img_src, pre.img_mask, pre.img_pos)
      st1 == [st EXCEPT !.encCalled = TRUE, !.encSrc = pre.img_src,
                        !.encMask = pre.img_mask, !.encPos = pre.img_pos]
      strip == m.mem_out_begin_idx # 0
      img_src == IF strip THEN SliceSeqFrom(pre.img_src, m.mem_out_begin_idx) ELSE pre.img_src
      img_pos == IF strip THEN SliceSeqFrom(pre.img_pos, m.mem_out_begin_idx) ELSE pre.img_pos
      img_mask == IF strip THEN SliceSeqFrom(pre.img_mask, m.mem_out_begin_idx) ELSE pre.img_mask
      memory0 == IF strip THEN SliceSeqFrom(enc.out, m.mem_out_begin_idx) ELSE enc.out
      memory1 == IF m.args.residual_in_encoder THEN Residual(img_src, memory0) ELSE memory0
      memory == Proj(m.enc2dec_proj, m.d_model_enc, m.d_model_dec, memory1)
      pos_proj == Proj(m.pos_embed_proj, m.d_model_enc, m.d_model_dec, img_pos)
  IN IF pre.err # "" THEN Fail(st, pre.err)
     ELSE IF enc.err # "" THEN Fail(st1, enc.err)
     ELSE IF strip /\ pre.img_pos.none THEN Fail(st1, "TypeError")
     ELSE IF memory.err # "" THEN Fail(st1, memory.err)
     ELSE IF pos_proj.err # "" THEN Fail(st1, pos_proj.err)
     ELSE [st1 EXCEPT !.memories = Append(@, memory.t),
                      !.pos_embeds = Append(@, pos_proj.t),
                      !.masks = Append(@, img_mask)]

\* lines 222-259
ImageBranch(m, in, st) ==
  IF st.err # "" \/ in.img_src.none THEN st
  ELSE LET bs == in.img_src.shape[1]
           img_src == Permute(Flatten2(in.img_src), <<3, 1, 2>>)
           img_pos == Permute(Flatten2(in.img_pos), <<3, 1, 2>>)
           img_mask == Flatten1(in.img_mask)
           q == ImageQueries(m, in, st, bs, img_src, img_pos)
       IN IF q.st.err # "" THEN q.st
          ELSE ImageEncode(m, in, q.st, q.img_src, img_mask, q.img_pos)

\* text_mask == 1: the sentinel read the wrong way round
EqualOne(t) ==
  Tensor(t.ax, t.shape, [p \in 1..Len(t.seq) |-> [b \in 1..Len(t.seq[p]) |-> t.seq[p][b] = 1]])

\* text_mask != 1
NotEqualOne(t) ==
  Tensor(t.ax, t.shape, [p \in 1..Len(t.seq) |-> [b \in 1..Len(t.seq[p]) |-> t.seq[p][b] # 1]])

\* the text branch treating pass_pos_and_query = false as the image branch does,
\* instead of raising
TextBranchNoRaise(m, in, st) ==
  IF st.err # "" \/ in.text_src.none THEN st
  ELSE LET text_src == Permute(in.text_src, <<2, 1, 3>>)
           query_embed == _prefix_task_embedding_to_query_embed(
                            m, UnsqueezeRepeat(st.query_embed, text_src.shape[2]), in.task_idx)
       IN [st EXCEPT !.memories = Append(@, text_src),
                     !.pos_embeds = Append(@, UnsqueezeRepeat(in.text_pos, text_src.shape[2])),
                     !.masks = Append(@, NotEqualOne(in.text_mask)),
                     !.query_embed = IF m.pass_pos_and_query THEN query_embed.t ELSE NoneT,
                     !.tgt = IF m.pass_pos_and_query THEN ZerosLike(query_embed.t)
                             ELSE query_embed.t]

\* lines 261-275
TextBranch(m, in, st) ==
  IF st.err # "" \/ in.text_src.none THEN st
  ELSE LET text_src == Permute(in.text_src, <<2, 1, 3>>)
           text_pos == UnsqueezeRepeat(in.text_pos, text_src.shape[2])
           st1 == [st EXCEPT !.memories = Append(@, text_src),
                             !.pos_embeds = Append(@, text_pos),
                             !.masks = Append(@, NotEqualOne(in.text_mask))]
           query_embed == _prefix_task_embedding_to_query_embed(
                            m, UnsqueezeRepeat(st.query_embed, text_src.shape[2]), in.task_idx)
       IN IF query_embed.err # "" THEN Fail(st1, query_embed.err)
          ELSE IF m.pass_pos_and_query
          THEN [st1 EXCEPT !.query_embed = query_embed.t, !.tgt = ZerosLike(query_embed.t)]
          ELSE Fail([st1 EXCEPT !.query_embed = query_embed.t], "NotImplementedError")

\* the lookup with a fallback: an unknown pair silently gets the first decoder
LookupWithDefault(m, in, st) ==
  IF st.err # "" THEN st
  ELSE IF in.task_type \in DOMAIN m.decoders /\ in.dataset_name \in DOMAIN m.decoders[in.task_type]
  THEN [st EXCEPT !.lookedUp = TRUE, !.decoder = m.decoders[in.task_type][in.dataset_name]]
  ELSE [st EXCEPT !.lookedUp = TRUE, !.decoder = 1]

\* line 277: self.decoders[task_type][dataset_name]
Lookup(m, in, st) ==
  IF st.err # "" THEN st
  ELSE IF in.task_type \notin DOMAIN m.decoders THEN Fail(st, "KeyError")
  ELSE IF in.dataset_name \notin DOMAIN m.decoders[in.task_type] THEN Fail(st, "KeyError")
  ELSE [st EXCEPT !.lookedUp = TRUE, !.decoder = m.decoders[in.task_type][in.dataset_name]]

\* lines 279-281
Fuse(st) ==
  IF st.err # "" THEN st
  ELSE LET memories == CatSeq(st.memories)
           masks == CatSeq(st.masks)
           pos_embeds == CatSeq(st.pos_embeds)
       IN IF memories.err # "" THEN Fail(st, memories.err)
          ELSE IF masks.err # "" THEN Fail(st, masks.err)
          ELSE IF pos_embeds.err # "" THEN Fail(st, pos_embeds.err)
          ELSE [st EXCEPT !.fusedMem = memories.t, !.fusedMask = masks.t,
                          !.fusedPos = pos_embeds.t]

\* lines 283-289
RunDecoder(m, st) ==
  IF st.err # "" THEN st
  ELSE IF st.decoder = 0 THEN Fail(st, "TypeError")
  ELSE IF st.tgt.none THEN Fail(st, "UnboundLocalError")
  ELSE LET hs == TransformerDecoderForward(m.instances[st.decoder], st.tgt, st.fusedMem,
                                           st.fusedMask, st.fusedPos, st.query_embed)
       IN IF hs.err # "" THEN Fail([st EXCEPT !.decCalled = TRUE], hs.err)
          ELSE [st EXCEPT !.decCalled = TRUE, !.decOut = hs.out]

\* hs[:, :, b:, :]
SliceDim2(t, b) ==
  IF Len(t.shape) < 4 THEN [err |-> "IndexError", t |-> NoneT]
  ELSE [err |-> "",
        t |-> Tensor(t.ax, [k \in 1..Len(t.shape) |-> IF k = 3 THEN t.shape[k] - b ELSE t.shape[k]],
                     IF t.ax[3] = "S" THEN SubSeq(t.seq, b + 1, Len(t.seq)) ELSE t.seq)]

\* the return with the fused memory handed back as it is, sequence axis first
FinishUnpermuted(m, st) ==
  IF st.err # "" THEN st
  ELSE LET hs == SliceDim2(Transpose12(st.decOut), m.hs_out_begin_idx)
       IN IF hs.err # "" THEN Fail(st, hs.err)
          ELSE [st EXCEPT !.returned = TRUE, !.hs = hs.t, !.memory = st.fusedMem]

\* lines 290-294
Finish(m, st) ==
  IF st.err # "" THEN st
  ELSE LET hs == SliceDim2(Transpose12(st.decOut), m.hs_out_begin_idx)
       IN IF hs.err # "" THEN Fail(st, hs.err)
          ELSE [st EXCEPT !.returned = TRUE, !.hs = hs.t,
                          !.memory = Permute(st.fusedMem, <<2, 3, 1>>)]

\* forward answering a call without any input by an empty result
ForwardEmptyWithoutInput(m, in) ==
  IF in.img_src.none /\ in.text_src.none
  THEN [Start(in) EXCEPT !.returned = TRUE]
  ELSE Finish(m, RunDecoder(m, Fuse(Lookup(m, in, TextBranch(m, in, ImageBranch(m, in, Start(in)))))))

MTTransformerForward(m, in) ==
  Finish(m, RunDecoder(m, Fuse(Lookup(m, in, TextBranch(m, in, ImageBranch(m, in, Start(in)))))))

\* ------------------------------------------------------------ the inputs
\* the original image position (row r, column c)
Pixel(r, c) == 10 * r + c

\* an image batch: row bs carries pad padded columns on the right
ImageSrc(bs, d, h, w) ==
  Tensor(<<"B", "C", "H", "W">>, <<bs, d, h, w>>,
         [r \in 1..h |-> [c \in 1..w |-> Cell(Tok("img", Pixel(r, c)))]])

ImagePos(bs, d, h, w) ==
  Tensor(<<"B", "C", "H", "W">>, <<bs, d, h, w>>,
         [r \in 1..h |-> [c \in 1..w |-> PosCell(Tok("imgpos", Pixel(r, c)))]])

ImageMask(bs, h, w, pad) ==
  Tensor(<<"B", "H", "W">>, <<bs, h, w>>,
         [r \in 1..h |-> [c \in 1..w |-> [b \in 1..bs |-> b = bs /\ c > w - pad]]])

TextSrc(bs, d, n) ==
  Tensor(<<"B", "S", "C">>, <<bs, n, d>>, [j \in 1..n |-> Cell(Tok("text", j))])

TextPos(d, n) ==
  Tensor(<<"S", "C">>, <<n, d>>, [j \in 1..n |-> PosCell(Tok("textpos", j))])

\* 1 marks a real token, 0 a padded one: row bs carries pad padded tokens
TextMask(bs, n, pad) ==
  Tensor(<<"B", "S">>, <<bs, n>>,
         [j \in 1..n |-> [b \in 1..bs |-> IF b = bs /\ j > n - pad THEN 0 ELSE 1]])

QueryEmbed(d, n) ==
  Tensor(<<"S", "C">>, <<n, d>>, [j \in 1..n |-> Tok("query", j)])

Pads == {1}

Images(m, bs) ==
  {[img_src |-> NoneT, img_mask |-> NoneT, img_pos |-> NoneT]} \cup
  {[img_src |-> ImageSrc(bs, m.d_model_enc, h, w),
    img_mask |-> ImageMask(bs, h, w, pad),
    img_pos |-> ImagePos(bs, m.d_model_enc, h, w)] :
     h \in 1..MaxSide, w \in 1..MaxSide, pad \in Pads}

Texts(m, bs) ==
  {[text_src |-> NoneT, text_mask |-> NoneT, text_pos |-> NoneT]} \cup
  {[text_src |-> TextSrc(bs, m.d_model_dec, n),
    text_mask |-> TextMask(bs, n, pad),
    text_pos |-> TextPos(m.d_model_dec, n)] : n \in 1..MaxText, pad \in Pads}

\* the (task_type, dataset_name) pairs callers ask for
ForwardPairs ==
  {<<"detection", "coco">>, <<"vqa", "vqa2">>, <<"detection", "vqa2">>, <<"caption", "coco">>}

\* the task -> dataset enumerations (args.num_queries) models are built from
Enumerations ==
  {<<[task |-> "detection", datasets |-> <<"coco", "vg">>],
     [task |-> "vqa", datasets |-> <<"vqa2">>]>>,
   <<[task |-> "vqa", datasets |-> <<"vqa2">>]>>}

NoInput ==
  [img_src |-> NoneT, img_mask |-> NoneT, img_pos |-> NoneT,
   text_src |-> NoneT, text_mask |-> NoneT, text_pos |-> NoneT,
   query_embed |-> NoneT, task_type |-> "", dataset_name |-> "", task_idx |-> 0]

Inputs(m) ==
  {[img_src |-> img.img_src, img_mask |-> img.img_mask, img_pos |-> img.img_pos,
    text_src |-> text.text_src, text_mask |-> text.text_mask, text_pos |-> text.text_pos,
    query_embed |-> QueryEmbed(m.d_model_dec, nq),
    task_type |-> pair[1], dataset_name |-> pair[2], task_idx |-> task_idx] :
     img \in UNION {Images(m, bs) : bs \in BatchSizes},
     text \in UNION {Texts(m, bs) : bs \in BatchSizes},
     nq \in 1..MaxQueries, pair \in ForwardPairs, task_idx \in TaskIdxs}

\* --------------------------------------------------------- state machine
NoCall == [err |-> "", decCalled |-> FALSE, returned |-> FALSE, made |-> FALSE]

Outcome(r) == [err |-> r.err, decCalled |-> r.decCalled, returned |-> r.returned, made |-> TRUE]

Models ==
  {MTTransformerInit(
     [num_queries |-> e, use_task_embedding_in_encoder |-> te,
      use_task_embedding_in_decoder |-> td, residual_in_encoder |-> re],
     de, dd, n, ri, pp, sh) :
     e \in Enumerations, te \in BOOLEAN, td \in BOOLEAN, re \in BOOLEAN,
     de \in Dims, dd \in DecDims, n \in 0..MaxLayers, ri \in BOOLEAN,
     pp \in BOOLEAN, sh \in BOOLEAN}

Init ==
  /\ self \in Models
  /\ pc = "idle"
  /\ call = NoInput
  /\ ret = Start(NoInput)
  /\ again = NoCall

\* forward caching the decoder it selected in self.decoder
ModuleAfterForwardCaching(m, in) ==
  IF in.task_type \in DOMAIN m.decoders /\ in.dataset_name \in DOMAIN m.decoders[in.task_type]
  THEN [m EXCEPT !.decoder = m.decoders[in.task_type][in.dataset_name]]
  ELSE m

\* the module after a forward call: forward assigns no attribute of self (the
\* registry, the embedding tables, the projections are only read) and applies
\* no in-place operation to a parameter
ModuleAfterForward(m, in) == m

\* the caller's arguments after a forward call: query_embed, img_src, img_pos
\* and tgt are only rebound to new tensors (unsqueeze/repeat, cat, zeros_like,
\* +), never written in place
ArgumentsAfterForward(m, in) == in

\* one call of forward, from entry to its return or its exception
Forward ==
  /\ pc = "idle"
  /\ \E in \in Inputs(self) :
       /\ call' = ArgumentsAfterForward(self, in)
       /\ ret' = MTTransformerForward(self, in)
       /\ self' = ModuleAfterForward(self, in)
  /\ pc' = "done"
  /\ UNCHANGED again

\* after a failed call, the caller repeats it with the same inputs
Retry ==
  /\ pc = "done"
  /\ ret.err # ""
  /\ ~again.made
  /\ again' = Outcome(MTTransformerForward(self, call))
  /\ self' = ModuleAfterForward(self, call)
  /\ call' = ArgumentsAfterForward(self, call)
  /\ UNCHANGED <<pc, ret>>

\* the caller drops the result and is ready for the next call
Return ==
  /\ pc = "done"
  /\ pc' = "idle"
  /\ call' = NoInput
  /\ ret' = Start(NoInput)
  /\ again' = NoCall
  /\ UNCHANGED self

Next == Forward \/ Retry \/ Return

Spec == Init /\ [][Next]_vars

\* ------------------------------------------------- vocabulary of the claims
Done == pc = "done"
HasImage == ~call.img_src.none
HasText == ~call.text_src.none
ImgH == call.img_src.shape[3]
ImgW == call.img_src.shape[4]
HW == IF HasImage THEN ImgH * ImgW ELSE 0
TextLen == IF HasText THEN call.text_src.shape[2] ELSE 0
BatchSize == IF HasImage THEN call.img_src.shape[1] ELSE call.text_src.shape[1]
NumQueries == call.query_embed.shape[1]
UsedDecoder == self.instances[ret.decoder]

\* the original image position that flatten puts at sequence position i (from 1)
PixelAt(i) == Pixel(((i - 1) \div ImgW) + 1, ((i - 1) % ImgW) + 1)

\* the padding flags the caller gave for the image position at sequence position i
ImageMaskAt(i) == call.img_mask.seq[((i - 1) \div ImgW) + 1][((i - 1) % ImgW) + 1]

EnumeratedPairs(e) ==
  UNION {{<<e[k].task, e[k].datasets[j]>> : j \in 1..Len(e[k].datasets)} : k \in 1..Len(e)}

Registered(task, dataset) == <<task, dataset>> \in EnumeratedPairs(self.args.num_queries)

\* ------------------------------------------------------------------- C1
\* a decoder that returns intermediates and has a final norm was run
IntermediateDecoderRan ==
  Done /\ ret.decCalled /\ UsedDecoder.return_intermediate /\ UsedDecoder.norm

\* the stack has num_layers entries; entry l is the norm, applied once, of the
\* output of layer l, slot by slot
StackOfNormedLayers ==
  /\ ~ret.decOut.none
  /\ ret.decOut.ax = <<"L", "S", "B", "C">>
  /\ ret.decOut.shape = <<UsedDecoder.num_layers>> \o ret.tgt.shape
  /\ Len(ret.decOut.seq) = Len(ret.tgt.seq)
  /\ \A p \in 1..Len(ret.decOut.seq) :
       /\ Len(ret.decOut.seq[p]) = UsedDecoder.num_layers
       /\ \A l \in 1..UsedDecoder.num_layers :
            /\ ret.decOut.seq[p][l].layer = l
            /\ ret.decOut.seq[p][l].nrm = 1
            /\ ret.decOut.seq[p][l].dec = UsedDecoder.id
            /\ ret.decOut.seq[p][l].tgt = ret.tgt.seq[p]

\* C1 as stated: for EVERY layer count (0 included) TransformerDecoder.forward
\* with return_intermediate and a final norm returns a stack of num_layers
\* entries, entry l the once-normalized output of layer l.
C1_EveryLayerCount == IntermediateDecoderRan => StackOfNormedLayers

\* C1 amended: for every layer count num_layers >= 1, TransformerDecoder.forward
\* with return_intermediate and a final norm returns a stack of exactly
\* num_layers entries, entry l the final norm applied once to the output of
\* layer l (so the last entry is the final normalized output of the last layer).
C1_StackPerLayer ==
  (IntermediateDecoderRan /\ UsedDecoder.num_layers >= 1) => StackOfNormedLayers

C1_Witness ==
  /\ IntermediateDecoderRan
  /\ UsedDecoder.num_layers = MaxLayers
  /\ ~ret.decOut.none
  /\ Len(ret.decOut.seq) >= 2

\* ------------------------------------------------------------------- C2
EncoderInjection == self.args.use_task_embedding_in_encoder

\* what the encoder was given
EncoderInputAsClaimed ==
  IF EncoderInjection
  THEN /\ Len(ret.encSrc.seq) = HW + 1
       /\ ret.encSrc.shape = <<HW + 1, BatchSize, self.d_model_enc>>
       /\ ret.encSrc.seq[1].of = Tok("task_enc", call.task_idx)
       /\ \A i \in 1..HW : ret.encSrc.seq[i + 1].of = Tok("img", PixelAt(i))
       /\ ~ret.encMask.none
       /\ ret.encMask.shape = <<BatchSize, HW + 1>>
       /\ Len(ret.encMask.seq) = HW + 1
       /\ \A b \in 1..BatchSize : ret.encMask.seq[1][b] = FALSE
       /\ \A i \in 1..HW : ret.encMask.seq[i + 1] = ImageMaskAt(i)
       /\ ~ret.encPos.none
       /\ ret.encPos.shape = ret.encSrc.shape
       /\ Len(ret.encPos.seq) = HW + 1
       /\ ret.encPos.seq[1].of = ZeroTok
       /\ \A i \in 1..HW : ret.encPos.seq[i + 1].of = Tok("imgpos", PixelAt(i))
  ELSE /\ Len(ret.encSrc.seq) = HW
       /\ ret.encSrc.shape = <<HW, BatchSize, self.d_model_enc>>
       /\ \A i \in 1..HW : ret.encSrc.seq[i].of = Tok("img", PixelAt(i))
       /\ ret.encMask.shape = <<BatchSize, HW>>
       /\ \A i \in 1..HW : ret.encMask.seq[i] = ImageMaskAt(i)

\* the image part of what is fused: HW positions, position i the encoder's
\* output for image position i, with the positional embedding and the mask of
\* image position i
ImageMemoryAsClaimed(mem, pos, mask) ==
  /\ Len(mem.seq) = HW + TextLen
  /\ \A i \in 1..HW :
       /\ mem.seq[i].of = Tok("img", PixelAt(i))
       /\ mem.seq[i].enc = NumEncoderLayers
       /\ mem.seq[i].ctx = HW + (IF EncoderInjection THEN 1 ELSE 0)
       /\ mem.seq[i].res \in {NoTok, Tok("img", PixelAt(i))}
       /\ mask.seq[i] = ImageMaskAt(i)
       /\ pos.none \/ pos.seq[i].of = Tok("imgpos", PixelAt(i))
  /\ \A i \in 1..Len(mem.seq) : mem.seq[i].of.k # "task_enc"

\* C2: with image input, the encoder sees H*W + 1 positions when encoder-side
\* injection is on (task embedding, a not-padding mask entry and a zero
\* positional embedding at position 0) and H*W when it is off; the image
\* memory that is fused and returned has exactly H*W positions, position i
\* belonging to image position i, in both cases.
C2_EncoderPrefixStripped ==
  (Done /\ HasImage) =>
     /\ ret.encCalled => EncoderInputAsClaimed
     /\ ~ret.fusedMem.none =>
          /\ ImageMemoryAsClaimed(ret.fusedMem, ret.fusedPos, ret.fusedMask)
          /\ ret.fusedMem.shape[1] = HW + TextLen
     /\ ret.returned =>
          /\ ret.memory.seq = ret.fusedMem.seq
          /\ ret.memory.shape = <<BatchSize, self.d_model_dec, HW + TextLen>>

C2_Witness ==
  /\ Done /\ HasImage /\ ~HasText /\ EncoderInjection
  /\ ret.encCalled /\ ret.returned
  /\ Len(ret.encSrc.seq) = 5
  /\ Len(ret.memory.seq) = 4
  /\ self.args.residual_in_encoder

\* ------------------------------------------------------------------- C3
DecoderInjection == self.args.use_task_embedding_in_decoder

\* the cell is a decoder output for original query j
OutputForQuery(cell, j) ==
  /\ cell.dec = ret.decoder
  /\ IF ret.query_embed.none
     THEN cell.tgt = Tok("query", j) /\ cell.qpos = NoTok
     ELSE cell.qpos = Tok("query", j) /\ cell.tgt = ZeroTok

\* C3: whenever forward completes (image-only, text-only or image+text), every
\* returned layer holds exactly num_queries positions, position j the decoder
\* output for original query j; with decoder-side injection the decoder ran on
\* num_queries + 1 slots, slot 0 the task embedding, and exactly slot 0 was
\* removed; without it the decoder ran on the num_queries slots as given.
C3_QueryPrefixStripped ==
  (Done /\ ret.returned) =>
     /\ Len(ret.hs.seq) = NumQueries
     /\ ret.hs.shape = <<UsedDecoder.num_layers, BatchSize, NumQueries, self.d_model_dec>>
     /\ ret.hs.ax = <<"L", "B", "S", "C">>
     /\ \A j \in 1..NumQueries :
          /\ Len(ret.hs.seq[j]) = UsedDecoder.num_layers
          /\ \A l \in 1..UsedDecoder.num_layers :
               /\ OutputForQuery(ret.hs.seq[j][l], j)
               /\ ret.hs.seq[j][l].layer = l
     /\ IF DecoderInjection
        THEN /\ Len(ret.decOut.seq) = NumQueries + 1
             /\ Len(ret.tgt.seq) = NumQueries + 1
             /\ \A l \in 1..UsedDecoder.num_layers :
                  ret.decOut.seq[1][l].qpos = Tok("task_dec", call.task_idx)
             /\ ret.hs.seq = SubSeq(ret.decOut.seq, 2, NumQueries + 1)
        ELSE /\ Len(ret.tgt.seq) = NumQueries
             /\ ret.hs.seq = ret.decOut.seq
             /\ \A p \in 1..Len(ret.decOut.seq) : \A l \in 1..UsedDecoder.num_layers :
                  ret.decOut.seq[p][l].qpos.k # "task_dec"

C3_Witness ==
  /\ Done /\ ret.returned /\ DecoderInjection
  /\ HasImage /\ HasText
  /\ NumQueries = MaxQueries
  /\ Len(ret.decOut.seq) = MaxQueries + 1
  /\ UsedDecoder.num_layers = MaxLayers

\* ------------------------------------------------------------------- C4
\* C4: with image and text both present, the fused memory, positional
\* embedding and padding mask all have length H*W + T (encoder-side injection
\* on or off); offsets 0..H*W-1 are the image positions in order and offsets
\* H*W..H*W+T-1 the text tokens in order; a fused mask entry is padding exactly
\* when its image position is marked padding, or its text token is not marked
\* with the sentinel 1.
C4_FusedTriple ==
  (Done /\ HasImage /\ HasText /\ ~ret.fusedMem.none) =>
     /\ Len(ret.fusedMem.seq) = HW + TextLen
     /\ Len(ret.fusedPos.seq) = HW + TextLen
     /\ Len(ret.fusedMask.seq) = HW + TextLen
     /\ ret.fusedMem.shape = <<HW + TextLen, BatchSize, self.d_model_dec>>
     /\ ret.fusedPos.shape = <<HW + TextLen, BatchSize, self.d_model_dec>>
     /\ ret.fusedMask.shape = <<BatchSize, HW + TextLen>>
     /\ \A i \in 1..HW :
          /\ ret.fusedMem.seq[i].of = Tok("img", PixelAt(i))
          /\ ret.fusedPos.seq[i].of = Tok("imgpos", PixelAt(i))
          /\ \A b \in 1..BatchSize : ret.fusedMask.seq[i][b] = ImageMaskAt(i)[b]
     /\ \A j \in 1..TextLen :
          /\ ret.fusedMem.seq[HW + j].of = Tok("text", j)
          /\ ret.fusedPos.seq[HW + j].of = Tok("textpos", j)
          /\ \A b \in 1..BatchSize :
               ret.fusedMask.seq[HW + j][b] = (call.text_mask.seq[j][b] # 1)

C4_Witness ==
  /\ Done /\ HasImage /\ HasText /\ ret.returned /\ EncoderInjection
  /\ HW = 4 /\ TextLen = 2
  /\ \E i \in 1..HW : \E b \in 1..BatchSize : ret.fusedMask.seq[i][b]
  /\ \E i \in 1..HW : \E b \in 1..BatchSize : ~ret.fusedMask.seq[i][b]
  /\ \E b \in 1..BatchSize : ret.fusedMask.seq[HW + TextLen][b]
  /\ \E b \in 1..BatchSize : ~ret.fusedMask.seq[HW + 1][b]

\* ------------------------------------------------------------------- C5
Unregistered == ~Registered(call.task_type, call.dataset_name)

\* nothing was selected, run or returned
NoDecoderUsed ==
  /\ ret.err # ""
  /\ ~ret.lookedUp /\ ret.decoder = 0
  /\ ~ret.decCalled /\ ret.decOut.none
  /\ ~ret.returned /\ ret.hs.none /\ ret.memory.none

\* the call failed before it reached the decoder selection
FailedBeforeLookup ==
  /\ ~self.pass_pos_and_query
  /\ \/ HasText /\ ret.err = "NotImplementedError"
     \/ HasImage /\ ~HasText /\ ret.err = "TypeError"

\* C5 as stated: every call with a pair outside the enumeration ends in a
\* lookup failure, runs no decoder, and fails the same way when repeated.
C5_AlwaysLookupFailure ==
  (Done /\ Unregistered) =>
     /\ ret.err = "KeyError"
     /\ NoDecoderUsed
     /\ again.made => again = Outcome(ret)

\* C5 amended: every call with a pair outside the enumeration fails and returns
\* nothing, for both values of share_decoders: with the lookup failure whenever
\* the call reaches the decoder selection (always when pass_pos_and_query is
\* true), otherwise with the failure it hit before the selection; no decoder is
\* selected or run, none is substituted, and the repeated call fails the same.
C5_UnregisteredFails ==
  (Done /\ Unregistered) =>
     /\ NoDecoderUsed
     /\ ret.err = "KeyError" \/ FailedBeforeLookup
     /\ self.pass_pos_and_query => ret.err = "KeyError"
     /\ again.made => again = Outcome(ret)

C5_Witness ==
  /\ Done /\ Unregistered /\ ret.err = "KeyError"
  /\ call.task_type \in DOMAIN self.decoders
  /\ self.share_decoders
  /\ ret.encCalled
  /\ again.made

\* ------------------------------------------------------------------- C6
Entry(pair) == self.decoders[pair[1]][pair[2]]

WithPair(in, pair) == [in EXCEPT !.task_type = pair[1], !.dataset_name = pair[2]]

\* C6: the registry has exactly one entry per enumerated (task, dataset) pair;
\* with share_decoders every entry is the one decoder of the parent
\* constructor, so a call gives the same result under any two registered
\* pairs; without it the entries of distinct pairs are distinct decoders built
\* by build_decoder_layer, none of them the parent's.
C6_Registry ==
  LET e == self.args.num_queries
      pairs == EnumeratedPairs(e)
  IN /\ DOMAIN self.decoders = {e[k].task : k \in 1..Len(e)}
     /\ \A k \in 1..Len(e) :
          DOMAIN self.decoders[e[k].task] =
            {e[k].datasets[j] : j \in 1..Len(e[k].datasets)}
     /\ \A p \in pairs :
          /\ Entry(p) \in 1..Len(self.instances)
          /\ self.instances[Entry(p)].id = Entry(p)
     /\ self.share_decoders =>
          /\ self.decoder = 1
          /\ \A p \in pairs : Entry(p) = self.decoder
          /\ (Done /\ ~Unregistered) =>
               \A q \in pairs : MTTransformerForward(self, WithPair(call, q)) = ret
     /\ ~self.share_decoders =>
          /\ \A p, q \in pairs : p # q => Entry(p) # Entry(q)
          /\ \A p \in pairs : Entry(p) # 1
          /\ Len(self.instances) = 1 + Cardinality(pairs)

C6_Witness ==
  /\ Done /\ ~Unregistered /\ ret.returned
  /\ self.share_decoders
  /\ Cardinality(EnumeratedPairs(self.args.num_queries)) >= 3

\* ------------------------------------------------------------------- C7
ImageOnlyReturned == Done /\ ret.returned /\ HasImage /\ ~HasText

\* C7 as stated: the memory returned by an image-only call has the spatial
\* shape (batch, decoder_dim, height, width).
C7_SpatialMemory ==
  ImageOnlyReturned => ret.memory.shape = <<BatchSize, self.d_model_dec, ImgH, ImgW>>

\* C7 amended: the memory returned by an image-only call with a registered
\* pair has shape (batch, decoder_dim, height * width): the sequence axis is
\* moved last and stays flattened, position i holding image position i in
\* row-major order.
C7_FlatMemory ==
  ImageOnlyReturned =>
     /\ ret.memory.ax = <<"B", "C", "S">>
     /\ ret.memory.shape = <<BatchSize, self.d_model_dec, ImgH * ImgW>>
     /\ Len(ret.memory.seq) = ImgH * ImgW
     /\ \A i \in 1..(ImgH * ImgW) : ret.memory.seq[i].of = Tok("img", PixelAt(i))

C7_Witness ==
  /\ ImageOnlyReturned
  /\ ImgH = 1 /\ ImgW = 2
  /\ self.d_model_enc # self.d_model_dec

\* ------------------------------------------------------------------- C8
\* C8: built with return_intermediate_dec disabled, a call with valid inputs
\* and a registered pair completes and returns one hidden-state array of shape
\* (batch, num_queries, decoder_dim).
C8_SingleArray ==
  (/\ Done /\ ~Unregistered /\ self.pass_pos_and_query
   /\ HasImage \/ HasText
   /\ ~self.instances[1].return_intermediate) =>
     /\ ret.returned
     /\ ret.hs.shape = <<BatchSize, NumQueries, self.d_model_dec>>

\* ------------------------------------------------------------------- C9
\* C9: with pass_pos_and_query false and a text input (alone or with an
\* image), forward fails with the not-implemented error before any decoder is
\* looked up or run, whatever the pair, and returns no hidden states.
C9_TextNeedsPassPos ==
  (Done /\ ~self.pass_pos_and_query /\ HasText) =>
     /\ ret.err = "NotImplementedError"
     /\ ~ret.lookedUp /\ ret.decoder = 0
     /\ ~ret.decCalled
     /\ ~ret.returned /\ ret.hs.none

C9_Witness ==
  /\ Done /\ ~self.pass_pos_and_query /\ HasText /\ HasImage
  /\ ~Unregistered
  /\ ret.encCalled
  /\ ret.err = "NotImplementedError"

\* ------------------------------------------------------------------ C10
\* C10: a call with neither image nor text ends in an error for every pair,
\* registered or not; no encoder and no decoder is run, nothing is returned.
C10_NoInputFails ==
  (Done /\ ~HasImage /\ ~HasText) =>
     /\ ret.err # ""
     /\ ~ret.encCalled
     /\ ~ret.decCalled
     /\ ~ret.returned /\ ret.hs.none /\ ret.memory.none

C10_Witness ==
  /\ Done /\ ~HasImage /\ ~HasText
  /\ ~Unregistered
  /\ ret.lookedUp
  /\ ret.err = "RuntimeError"

\* ------------------------------------------------------------------ C11
\* the query set as a caller hands it in: num_queries learned vectors of the
\* decoder dimension, in order, no task slot, no batch axis
CallerQueryIntact ==
  /\ ~call.query_embed.none
  /\ call.query_embed.ax = <<"S", "C">>
  /\ call.query_embed.shape = <<Len(call.query_embed.seq), self.d_model_dec>>
  /\ \A j \in 1..Len(call.query_embed.seq) : call.query_embed.seq[j] = Tok("query", j)

C12_FoldedImageOnlyCompletes ==
  (/\ Done /\ HasImage /\ ~HasText
   /\ ~self.pass_pos_and_query
   /\ ~Unregistered
   /\ self.instances[1].return_intermediate
   /\ self.instances[1].num_layers >= 1) =>
     /\ ret.err = ""
     /\ ret.returned
     /\ ret.query_embed.none
     /\ \A j \in 1..NumQueries : \A l \in 1..Len(ret.hs.seq[j]) :
          ret.hs.seq[j][l].tgt = Tok("query", j)

====
